---- MODULE Spec2Model ----
(***************************************************************************)
(* A model of the conversion run of rom_converter.py (class ROMConverter): *)
(* the Tk handlers start_conversion / stop_conversion / scan_directory /   *)
(* conversion_complete, the background conversion_thread with its          *)
(* ThreadPoolExecutor, and the per-file pipeline process_single_file ->    *)
(* convert_to_chd -> delete_original_files / move_to_backup_folder.        *)
(*                                                                         *)
(* A path is a record [dir, stem, n, ext]: dir is the list of the folders  *)
(* from the selected directory down to the file (<< >>: the file lies in   *)
(* the selected directory itself, <<"original_backup">>: in its backup     *)
(* folder), n holds the numeric suffixes of the name, one decimal digit    *)
(* each (0: none, 1: the name ends in _1, 12: it ends in _1_2), as         *)
(* move_to_backup_folder appends them on a name collision.  The file       *)
(* system is the set fs of existing paths.  A "with self.metrics_lock:"    *)
(* block is one atomic step.                                               *)
(***************************************************************************)
EXTENDS Integers, Sequences, FiniteSets, TLC

\* ---------------------------------------------------------------- bounds
\* pool size (multiprocessing.cpu_count() of the host)
cpu_cores == 2
\* number of runs the user starts in one behaviour
MaxRuns == 1
\* largest duplicate counter execute_move of the move dialog gets to
MaxSuffix == 3
\* longest name, in words and tags, given to clean_game_name, and the
\* number of times it is applied in a row
MaxTokens == 3
MaxApplications == 2

\* ------------------------------------------------------------ file model
P(stem, ext) == [dir |-> << >>, stem |-> stem, n |-> 0, ext |-> ext]
\* a file of the subfolder "sub", and the file in the backup folder that
\* has the name of a file
Sub(stem, ext) == [P(stem, ext) EXCEPT !.dir = << "sub" >>]
InBackup(file) == [file EXCEPT !.dir = Append(@, "original_backup")]

\* the sidecars, outputs and archives that may lie in the directory
Sidecars == {P("a", "bin"), P("b", "bin")}
Outputs == {P("a", "chd"), P("b", "chd")}
Archives == {P("c", "zip")}
\* archives of the other kinds: one for the external archiver, one with a
\* two-part extension
OtherArchives == {P("d", "7z"), P("t", "tar.gz")}

\* what an archive holds: the zip archive a raw image, the others nothing
\* that a scan looks for; it is extracted to the folder named after the
\* archive, next to it
ArchiveContent(archive) ==
    IF archive.ext = "zip"
    THEN {[dir |-> Append(archive.dir, archive.stem), stem |-> archive.stem,
           n |-> 0, ext |-> "iso"]}
    ELSE {}

Dirs == {"games", "gone"}
\* os.path.isdir(source_dir): "gone" names a directory that no longer exists
isdir(d) == d = "games"

\* the track files of the multi-track game m.cue
Tracks == << P("m1", "bin"), P("m2", "bin"), P("m3", "bin") >>

\* FILE "<name>" BINARY entries of a descriptor, in file order; an .iso
\* has no such line
CueContent(p) ==
    IF p.ext # "cue" THEN << >>
    ELSE IF p.stem = "m" THEN Tracks
    ELSE << [p EXCEPT !.ext = "bin", !.n = 0] >>

st_size(p) ==
    CASE p.ext = "cue" -> 1
      [] p.ext = "bin" -> 2
      [] p.ext = "iso" -> 3
      [] OTHER -> 1

StemRank(s) ==
    CASE s = "a" -> 1 [] s = "b" -> 2 [] s = "c" -> 3 [] s = "d" -> 4
      [] s = "t" -> 6 [] OTHER -> 5
ExtRank(e) ==
    CASE e = "bin" -> 1 [] e = "chd" -> 2 [] e = "cue" -> 3
      [] e = "iso" -> 4 [] OTHER -> 5
\* the folder of an extracted archive, original_backup, sub
FolderRank(d) == CASE d = "original_backup" -> 2 [] d = "sub" -> 3 [] OTHER -> 1
\* order of the file names used: stem, then suffix, then extension
NameLess(p, q) ==
    \/ StemRank(p.stem) < StemRank(q.stem)
    \/ /\ p.stem = q.stem
       /\ \/ p.n < q.n
          \/ p.n = q.n /\ ExtRank(p.ext) < ExtRank(q.ext)
\* a file name against a folder name: the file names used come before
\* original_backup and sub, and before the folder of an extracted archive
\* if their stem comes before its name
NameBeforeFolder(p, d) ==
    d \in {"original_backup", "sub"} \/ StemRank(p.stem) < StemRank(d)
\* order of pathlib paths under sorted(): part by part
RECURSIVE PathLess(_, _)
PathLess(p, q) ==
    IF p.dir = << >> /\ q.dir = << >> THEN NameLess(p, q)
    ELSE IF p.dir = << >> THEN NameBeforeFolder(p, Head(q.dir))
    ELSE IF q.dir = << >> THEN ~NameBeforeFolder(q, Head(p.dir))
    ELSE IF Head(p.dir) # Head(q.dir)
    THEN FolderRank(Head(p.dir)) < FolderRank(Head(q.dir))
    ELSE PathLess([p EXCEPT !.dir = Tail(@)], [q EXCEPT !.dir = Tail(@)])

RECURSIVE sorted(_)
sorted(S) ==
    IF S = {} THEN << >>
    ELSE LET m == CHOOSE x \in S : \A y \in S \ {x} : PathLess(x, y)
         IN << m >> \o sorted(S \ {m})

Range(s) == {s[i] : i \in 1..Len(s)}

RECURSIVE SumSizes(_)
SumSizes(s) == IF s = << >> THEN 0 ELSE st_size(Head(s)) + SumSizes(Tail(s))

SelectSeqIn(s, S) == SelectSeq(s, LAMBDA x : x \in S)

\* ------------------------------------------------------------- variables
VARIABLES
    fs,                  \* existing files
    source_dir,
    delete_originals, move_to_backup,
    process_ps1_cues, process_ps2_isos, extract_compressed,
    recursive,           \* "scan subfolders"
    delete_archives_after_extract,
    seven_zip_path,      \* TRUE: the path of the external archiver is set
    is_converting,
    convert_button, scan_button, stop_button,
    total_jobs, completed_jobs,
    total_original_size, total_chd_size,
    tpc,                 \* position of conversion_thread
    compressed_files,    \* archives extract_all_archives has still to do
    game_files,          \* its local list; job i runs on game_files[i]
    successful, failed, completed,
    jobs,                \* one record per submitted future
    extracted,           \* the calls of extract_archive of the current run
    after_complete,      \* master.after(0, conversion_complete) is pending
    lastEvent,           \* button or completion handler the main loop ran last
    runs,                \* runs started so far
    stopRequested,       \* stop_conversion ran during the current run
    dispatchedAtStop,    \* jobs a worker had taken when it ran
    validated,           \* the policy start_conversion let the run in
                         \* progress start with, "none" outside a run
    metrics_running,
    timers,              \* pending master.after(500, update_metrics) calls
    run_limit,           \* runs the user starts: MaxRuns, or one more
    io_errors,           \* the file system may refuse an unlink or a move
    found_files,         \* the move dialog's list of output files
    moved,               \* <<source, destination>> of its last execute_move
    cleaned              \* the calls of clean_game_name: argument and result

vars == << fs, source_dir, delete_originals, move_to_backup,
           process_ps1_cues, process_ps2_isos, extract_compressed,
           is_converting, convert_button, scan_button, stop_button,
           total_jobs, completed_jobs, total_original_size, total_chd_size,
           tpc, game_files, successful, failed, completed, jobs, extracted,
           after_complete, lastEvent, runs, stopRequested, dispatchedAtStop,
           io_errors, found_files, moved, cleaned, recursive,
           delete_archives_after_extract, seven_zip_path, compressed_files,
           validated, metrics_running, timers, run_limit >>

\* what no handler of the main window changes: the three settings, the
\* environment, and the state of the move dialog
dialog == << found_files, moved, cleaned >>
config == << process_ps1_cues, process_ps2_isos, extract_compressed,
             recursive, delete_archives_after_extract, seven_zip_path,
             io_errors, run_limit, dialog >>
options == << delete_originals, move_to_backup >>
buttons == << convert_button, scan_button, stop_button >>
totals == << total_jobs, completed_jobs, total_original_size, total_chd_size >>
locals == << compressed_files, game_files, successful, failed, completed >>
history == << runs, stopRequested, dispatchedAtStop, validated >>
sampler == << metrics_running, timers >>

JobIds == 1..Len(jobs)
Running == {"started", "sizing", "converting", "add_orig_store",
            "add_chd_load", "add_chd_store", "post", "move_check", "move_do"}
RunningJobs == {j \in JobIds : jobs[j].pc \in Running}

\* ------------------------------------------------------- pure functions
\* a scan whose two globs return every descriptor twice
find_game_files_Twice(directory, files) ==
    IF ~isdir(directory) THEN << >>
    ELSE LET found == sorted({p \in files : /\ recursive \/ p.dir = << >>
                                            /\ p.ext \in {"cue", "iso"}})
         IN found \o found

\* a scan that takes the descriptors of both kinds whatever is enabled
find_game_files_AllKinds(directory, files) ==
    IF ~isdir(directory) THEN << >>
    ELSE sorted({p \in files : /\ recursive \/ p.dir = << >>
                               /\ p.ext \in {"cue", "iso"}})

\* find_game_files: rglob of the tree, or glob of the directory itself
find_game_files(directory, files) ==
    IF ~isdir(directory) THEN << >>
    ELSE sorted({p \in files : /\ recursive \/ p.dir = << >>
                               /\ \/ process_ps1_cues /\ p.ext = "cue"
                                  \/ process_ps2_isos /\ p.ext = "iso"})

\* COMPRESSED_EXTENSIONS, without the leading dot
COMPRESSED_EXTENSIONS == {"zip", "7z", "rar", "gz", "tar", "tar.gz", "tgz"}

\* the name of the file matches the glob pattern "*.<ext>"
GlobMatches(p, ext) == p.ext = ext \/ (ext = "gz" /\ p.ext = "tar.gz")

RECURSIVE Repeat(_, _)
Repeat(x, k) == IF k = 0 THEN << >> ELSE << x >> \o Repeat(x, k - 1)

RECURSIVE Flatten(_)
Flatten(ss) == IF ss = << >> THEN << >> ELSE Head(ss) \o Flatten(Tail(ss))

\* find_compressed_files: what the glob of every extension returns, put
\* into one list and sorted; a file is in it once for every pattern its
\* name matches
find_compressed_files(directory, files) ==
    IF ~isdir(directory) THEN << >>
    ELSE LET found == sorted({p \in files :
                                /\ recursive \/ p.dir = << >>
                                /\ \E ext \in COMPRESSED_EXTENSIONS :
                                      GlobMatches(p, ext)})
             times(p) == Cardinality({ext \in COMPRESSED_EXTENSIONS :
                                        GlobMatches(p, ext)})
         IN Flatten([i \in 1..Len(found) |-> Repeat(found[i], times(found[i]))])

\* archive_path.suffix
suffix(p) == IF p.ext = "tar.gz" THEN "gz" ELSE p.ext

\* how an extraction can end: the archive is read, it is corrupt, the
\* external archiver exits non-zero, or it runs into the time limit
ArchiveOutcomes == {"ok", "corrupt", "exit1", "timeout"}

\* the outcomes the extraction of this archive can have
OutcomesFor(archive) ==
    IF suffix(archive) \in {"7z", "rar"}
    THEN IF seven_zip_path THEN {"ok", "exit1", "timeout"} ELSE {"ok"}
    ELSE {"ok", "corrupt"}

\* an extraction that lets the error of a corrupt archive through
extract_archive_Propagates(archive_path, outcome, files) ==
    [success |-> FALSE, folder |-> << >>, invoked |-> FALSE,
     raised |-> TRUE, files |-> files]

\* extract_archive: (success, folder) with << >> for no folder, whether
\* the external archiver was run, whether an exception left the function,
\* and the files after it.
\* zipfile and tarfile raise on a corrupt or missing archive, the external
\* archiver exits non-zero on it; every exception is caught.
extract_archive(archive_path, outcome, files) ==
    LET extract_folder == [dir |-> archive_path.dir,
                           name |-> archive_path.stem]
        external == suffix(archive_path) \in {"7z", "rar"}
        ok == archive_path \in files /\ outcome = "ok"
    IN IF external /\ ~seven_zip_path
       THEN [success |-> FALSE, folder |-> << >>, invoked |-> FALSE,
             raised |-> FALSE, files |-> files]
       ELSE IF ok
       THEN [success |-> TRUE, folder |-> << extract_folder >>,
             invoked |-> external, raised |-> FALSE,
             files |-> files \cup ArchiveContent(archive_path)]
       ELSE [success |-> FALSE, folder |-> << >>, invoked |-> external,
             raised |-> FALSE, files |-> files]

\* a resolver that returns every reference, found or not
parse_cue_file_KeepsMissing(cue_path, files) ==
    IF cue_path \notin files THEN << >> ELSE CueContent(cue_path)

\* parse_cue_file: the referenced files that exist, in descriptor order;
\* an unreadable descriptor gives the empty list
parse_cue_file(cue_path, files) ==
    IF cue_path \notin files THEN << >>
    ELSE SelectSeqIn(CueContent(cue_path), files)

\* path.with_suffix('.chd')
chd_path(path) == [path EXCEPT !.ext = "chd"]


\* the originals of a descriptor that delete_original_files and
\* move_to_backup_folder handle: the resolved sidecars that exist, then the
\* descriptor itself if it exists
originals(cue_path, files) ==
    parse_cue_file(cue_path, files) \o
    (IF cue_path \in files THEN << cue_path >> ELSE << >>)

\* the "while dest.exists()" loop of move_to_backup_folder: the name of the
\* file, else the first free <stem>_<counter><suffix>
RECURSIVE FreeSuffix(_, _, _)
FreeSuffix(file, counter, files) ==
    LET dest == [InBackup(file) EXCEPT
                    !.n = IF counter = 0 THEN @ ELSE 10 * @ + counter]
    IN IF dest \in files THEN FreeSuffix(file, counter + 1, files) ELSE dest

\* shutil.move(src, dest): the file now has the destination's name, and
\* what had that name before is gone
shutil_move(src, dest, files) == (files \ {src}) \cup {dest}

\* delete_original_files runs in a try block: an OSError (unlink refused)
\* ends it after `handled` of the originals, is logged, and False is
\* returned; handled = Len(originals) is the run without error.
delete_original_files(cue_path, files, handled) ==
    files \ Range(SubSeq(originals(cue_path, files), 1, handled))

\* a post-processing that does not look at what convert_to_chd returned
PostPolicy_IgnoresSuccess(success, del, mov) ==
    IF del THEN "delete" ELSE IF mov THEN "move" ELSE "none"

\* the branch of process_single_file taken after convert_to_chd returned
PostPolicy(success, del, mov) ==
    IF ~success THEN "none"
    ELSE IF del THEN "delete"
    ELSE IF mov THEN "move"
    ELSE "none"

\* a job that reports a failed post-processing as its own failure
JobResult_RevertsOnPostFailure(success, post_ok) == success /\ post_ok

\* "return success" of process_single_file: what delete_original_files or
\* move_to_backup_folder returned is not looked at
JobResult(success, post_ok) == success

\* a head of the job that does not look at the flag
ShouldRun_Always(flag) == TRUE

\* "if not self.is_converting: return None" at the head of a job
ShouldRun(flag) == flag

\* convert_to_chd without the check for an existing output
AlreadyConverted_Never(path, files) == FALSE

\* "if chd_path.exists(): ... return True" of convert_to_chd
AlreadyConverted(path, files) == chd_path(path) \in files

\* a converter call judged by its exit code alone
ConvertSucceeded_ExitCodeOnly(returncode, path, files) == returncode = 0

\* "result.returncode == 0 and chd_path.exists()"
ConvertSucceeded(returncode, path, files) ==
    returncode = 0 /\ chd_path(path) \in files

\* start_conversion without the check of the two options
StartRefused_DirOnly(dir, del, mov) == ~isdir(dir)

\* the two refusals at the head of start_conversion
StartRefused(dir, del, mov) == ~isdir(dir) \/ (del /\ mov)

\* a loop that counts a False result as completed but not as failed
Tally_DropsFailed(result, s, f, c) ==
    CASE result = "raised" -> << s, f + 1, c >>
      [] result = "True" -> << s + 1, f, c + 1 >>
      [] result = "False" -> << s, f, c + 1 >>
      [] OTHER -> << s, f, c >>

\* a loop that advances the completed count by two for a True result
Tally_CountsTwice(result, s, f, c) ==
    CASE result = "raised" -> << s, f + 1, c >>
      [] result = "True" -> << s + 1, f, c + 2 >>
      [] result = "False" -> << s, f + 1, c + 1 >>
      [] OTHER -> << s, f, c >>

\* the counters after one future of the as_completed loop
\* (<<successful, failed, completed>>)
Tally(result, s, f, c) ==
    CASE result = "raised" -> << s, f + 1, c >>
      [] result = "True" -> << s + 1, f, c + 1 >>
      [] result = "False" -> << s, f + 1, c + 1 >>
      [] OTHER -> << s, f, c >>

\* a pool that starts a thread for every work item
WorkerFree_Unbounded(running) == TRUE

\* ThreadPoolExecutor(max_workers=self.cpu_cores): a work item is taken
\* when fewer than cpu_cores workers are running one
WorkerFree(running) == Cardinality(running) < cpu_cores

\* a pool left with shutdown(wait=False)
PoolDrained_NoWait(js) == TRUE

\* a join that also waits for the futures it cancelled
PoolDrained_WaitsForCancelled(js) ==
    \A j \in 1..Len(js) : js[j].pc = "finished"

\* leaving "with ThreadPoolExecutor(...)": shutdown(wait=True) returns when
\* no worker is running a job any more
PoolDrained(js) == \A j \in 1..Len(js) : js[j].pc \notin Running

NewJob(path, files) ==
    [path |-> path, pc |-> "queued", result |-> "pending",
     success |-> FALSE, original_size |-> 0, chd_size |-> 0, reg |-> 0,
     collected |-> FALSE,
     bin_files |-> << >>,    \* what parse_cue_file returned to convert_to_chd
     \* history of the job
     hadOutput |-> chd_path(path) \in files,  \* output there at submission
     observed |-> "unread",  \* is_converting as the job read it at its head
     skipped |-> FALSE,      \* took the "CHD already exists" return
     invoked |-> 0,          \* calls of the external converter
     \* locals of the call in progress, gone when the job returns: how
     \* the converter call ended, and whether the output file was there
     outcome |-> "none",
     outputAtReturn |-> FALSE,
     afterStop |-> FALSE,    \* its converter call returned after a stop
     policy |-> "unset",     \* branch of the post-processing taken
     removed |-> {},         \* originals it deleted or moved
     postFailed |-> FALSE,   \* its delete or move ended on an error
     \* locals of move_to_backup_folder: the files still to move, and the
     \* destination found free for the first of them
     queue |-> << >>,
     dest |-> << >>,
     overwrote |-> FALSE,    \* a move of it replaced a file of the backup
     tallied |-> 0]          \* times its outcome was counted

\* the descriptors found in the directory: one track-list game, one raw
\* image, a track list and a raw image of the same name, two games
DescriptorSets ==
    {{P("a", "cue")}, {P("a", "iso")}, {P("a", "cue"), P("a", "iso")},
     {P("a", "cue"), P("b", "cue")}, {P("a", "iso"), P("b", "cue")}}

\* the directory trees a behaviour may start from: descriptors with their
\* sidecars, an archive, and the outputs of earlier conversions of them
Layouts ==
    {D \cup Sidecars \cup Archives \cup outs :
        D \in DescriptorSets, outs \in SUBSET Outputs}

LayoutOK(files) ==
    \A o \in files : o.ext = "chd" => \E d \in files : d.ext \in {"cue", "iso"}
                                                    /\ chd_path(d) = o

\* ------------------------------------------------------------------ Init
\* the fields of the object and the buttons after __init__ and setup_ui
Constructed ==
    /\ is_converting = FALSE
    /\ convert_button = "disabled"
    /\ scan_button = "normal"
    /\ stop_button = "disabled"
    /\ total_jobs = 0
    /\ completed_jobs = 0
    /\ total_original_size = 0
    /\ total_chd_size = 0
    /\ tpc = "idle"
    /\ game_files = << >>
    /\ successful = 0
    /\ failed = 0
    /\ completed = 0
    /\ jobs = << >>
    /\ compressed_files = << >>
    /\ extracted = << >>
    /\ after_complete = FALSE
    /\ lastEvent = "none"
    /\ runs = 0
    /\ stopRequested = FALSE
    /\ dispatchedAtStop = {}
    /\ validated = "none"
    /\ metrics_running = FALSE
    /\ timers = 0
    /\ found_files = << >>
    /\ moved = << >>
    /\ cleaned = << >>

Init ==
    /\ fs \in {l \in Layouts : LayoutOK(l)}
    /\ source_dir \in Dirs
    /\ delete_originals \in BOOLEAN
    /\ move_to_backup \in BOOLEAN
    /\ process_ps1_cues \in BOOLEAN
    /\ process_ps2_isos \in BOOLEAN
    /\ extract_compressed \in BOOLEAN
    /\ recursive = FALSE
    /\ delete_archives_after_extract = FALSE
    /\ seven_zip_path = FALSE
    /\ io_errors = FALSE
    /\ run_limit = MaxRuns
    /\ Constructed

\* an archive the run cannot extract, the external archiver not being
\* configured: it is in every directory below, with extraction enabled
Unextractable == {P("d", "7z")}

\* a directory with more descriptors than the pool has workers, the last
\* of them converted before
PoolInit ==
    /\ fs = {P("a", "cue"), P("a", "iso"), P("b", "cue"), P("b", "chd")}
                \cup Sidecars \cup Unextractable
    /\ source_dir = "games"
    /\ delete_originals = FALSE
    /\ move_to_backup = FALSE
    /\ process_ps1_cues = TRUE
    /\ process_ps2_isos = TRUE
    /\ extract_compressed = TRUE
    /\ recursive = FALSE
    /\ delete_archives_after_extract = FALSE
    /\ seven_zip_path = FALSE
    /\ io_errors = FALSE
    /\ run_limit = MaxRuns
    /\ Constructed

\* a multi-track game with any of its track files missing
TrackInit ==
    /\ fs \in {{P("m", "cue")} \cup T \cup Unextractable :
                 T \in SUBSET Range(Tracks)}
    /\ source_dir = "games"
    /\ delete_originals \in BOOLEAN
    /\ move_to_backup \in BOOLEAN
    /\ process_ps1_cues = TRUE
    /\ process_ps2_isos = TRUE
    /\ extract_compressed = TRUE
    /\ recursive = FALSE
    /\ delete_archives_after_extract = FALSE
    /\ seven_zip_path = FALSE
    /\ io_errors = FALSE
    /\ run_limit = MaxRuns
    /\ Constructed

\* a.cue and a_1.cue, with or without the sidecar they both name, and a
\* backup folder that may hold an a.cue and an a.bin put there before
BackupInit ==
    /\ fs \in {{P("a", "cue"), [P("a", "cue") EXCEPT !.n = 1]} \cup S \cup B
                    \cup Unextractable :
                 S \in SUBSET {P("a", "bin")},
                 B \in SUBSET {InBackup(P("a", "cue")),
                               InBackup(P("a", "bin"))}}
    /\ source_dir = "games"
    /\ delete_originals = FALSE
    /\ move_to_backup = TRUE
    /\ process_ps1_cues = TRUE
    /\ process_ps2_isos = TRUE
    /\ extract_compressed = TRUE
    /\ recursive = FALSE
    /\ delete_archives_after_extract = FALSE
    /\ seven_zip_path = FALSE
    /\ io_errors = FALSE
    /\ run_limit = MaxRuns
    /\ Constructed

\* a raw image and a track list in the directory and a track list, which
\* was converted before, in a subfolder; any descriptor kinds enabled,
\* subfolders scanned or not
ScanInit ==
    /\ fs = {P("a", "iso"), P("b", "cue"), P("b", "bin"),
             Sub("a", "cue"), Sub("a", "bin"), Sub("a", "chd")}
                \cup Unextractable
    /\ source_dir = "games"
    /\ delete_originals = FALSE
    /\ move_to_backup = FALSE
    /\ process_ps1_cues \in BOOLEAN
    /\ process_ps2_isos \in BOOLEAN
    /\ extract_compressed = TRUE
    /\ recursive \in BOOLEAN
    /\ delete_archives_after_extract = FALSE
    /\ seven_zip_path = FALSE
    /\ io_errors = FALSE
    /\ run_limit = MaxRuns
    /\ Constructed

\* a raw image with a zip archive and an archive for the external
\* archiver, or with an archive of a two-part extension; extraction
\* enabled, the archiver configured or not, the archives deleted after
\* extraction or not
ExtractInit ==
    /\ fs \in {{P("a", "iso")} \cup A :
                 A \in {Archives \cup {P("d", "7z")}, {P("t", "tar.gz")}}}
    /\ source_dir = "games"
    /\ delete_originals = FALSE
    /\ move_to_backup = FALSE
    /\ process_ps1_cues = TRUE
    /\ process_ps2_isos = TRUE
    /\ extract_compressed = TRUE
    /\ recursive = TRUE
    /\ delete_archives_after_extract \in BOOLEAN
    /\ seven_zip_path \in BOOLEAN
    /\ io_errors = FALSE
    /\ run_limit = MaxRuns
    /\ Constructed

\* one raw image, and a user who starts a run more than Init's does
RestartInit ==
    /\ fs = {P("a", "iso")} \cup Unextractable
    /\ source_dir = "games"
    /\ delete_originals = FALSE
    /\ move_to_backup \in BOOLEAN
    /\ process_ps1_cues = TRUE
    /\ process_ps2_isos = TRUE
    /\ extract_compressed = TRUE
    /\ recursive = FALSE
    /\ delete_archives_after_extract = FALSE
    /\ seven_zip_path = FALSE
    /\ io_errors = FALSE
    /\ run_limit = MaxRuns + 1
    /\ Constructed

\* two games, in an environment where an unlink or a move can be refused
FaultInit ==
    /\ fs \in {{P("a", "cue"), P("b", "cue")} \cup Sidecars \cup outs
                    \cup Unextractable :
                 outs \in SUBSET Outputs}
    /\ source_dir = "games"
    /\ delete_originals \in BOOLEAN
    /\ move_to_backup \in BOOLEAN
    /\ process_ps1_cues = TRUE
    /\ process_ps2_isos = TRUE
    /\ extract_compressed = TRUE
    /\ recursive = FALSE
    /\ delete_archives_after_extract = FALSE
    /\ seven_zip_path = FALSE
    /\ io_errors = TRUE
    /\ run_limit = MaxRuns
    /\ Constructed

\* ------------------------------------------------- Tk main-loop handlers
\* The thread reads source_dir up to its scan: a choice made later in a run
\* has the effect of the same choice made after the run.  Once the last run
\* of a behaviour has ended the user does nothing more.
BrowseDirectory(d) ==
    /\ \/ tpc = "idle" /\ runs < run_limit
       \/ tpc \in {"extract", "extracting", "scan"}
    /\ source_dir' = d
    /\ lastEvent' = "other"
    /\ UNCHANGED << fs, options, config, sampler, is_converting, buttons, totals, tpc,
                    locals, jobs, extracted, after_complete, history >>

\* The two option checkbuttons.  During a run only the post-processing of a
\* job reads them, so a change made during a run is taken at a moment a job
\* is about to read them.
OptionRead ==
    \/ tpc = "idle" /\ runs < run_limit
    \/ \E j \in JobIds : jobs[j].pc = "post"

ToggleDeleteOriginals ==
    /\ OptionRead
    /\ delete_originals' = ~delete_originals
    /\ lastEvent' = "other"
    /\ UNCHANGED << fs, source_dir, move_to_backup, config, sampler, is_converting,
                    buttons, totals, tpc, locals, jobs, extracted,
                    after_complete, history >>

ToggleMoveToBackup ==
    /\ OptionRead
    /\ move_to_backup' = ~move_to_backup
    /\ lastEvent' = "other"
    /\ UNCHANGED << fs, source_dir, delete_originals, config, sampler, is_converting,
                    buttons, totals, tpc, locals, jobs, extracted,
                    after_complete, history >>

ScanDirectory ==
    /\ scan_button = "normal"
    /\ runs < run_limit
    /\ lastEvent' = "other"
    /\ IF ~isdir(source_dir)
       THEN UNCHANGED convert_button
       ELSE LET compressed_count ==
                    IF extract_compressed
                    THEN Len(find_compressed_files(source_dir, fs)) ELSE 0
                found == find_game_files(source_dir, fs)
            IN convert_button' =
                   IF found = << >> /\ compressed_count = 0
                   THEN "disabled" ELSE "normal"
    /\ UNCHANGED << fs, source_dir, options, config, sampler, is_converting,
                    scan_button, stop_button, totals, tpc, locals, jobs,
                    extracted, after_complete, history >>

\* the state start_conversion leaves the convert button in for the run
ConvertButtonDuringRun_Normal == "normal"

ConvertButtonDuringRun == "disabled"

StartConversion(confirm) ==
    /\ convert_button = "normal"
    /\ StartRefused(source_dir, delete_originals, move_to_backup)
          \/ runs < run_limit
    /\ lastEvent' = "start_conversion"
    /\ IF \/ StartRefused(source_dir, delete_originals, move_to_backup)
          \/ delete_originals /\ ~confirm
       THEN UNCHANGED << is_converting, buttons, totals, tpc, locals, jobs,
                         extracted, history, sampler >>
       ELSE /\ is_converting' = TRUE
            /\ metrics_running' = TRUE
            /\ validated' = PostPolicy(TRUE, delete_originals, move_to_backup)
            /\ total_jobs' = Len(find_game_files(source_dir, fs))
            /\ completed_jobs' = 0
            /\ UNCHANGED << total_original_size, total_chd_size >>
            /\ convert_button' = ConvertButtonDuringRun
            /\ scan_button' = "disabled"
            /\ stop_button' = "normal"
            \* threading.Thread(target=self.conversion_thread).start()
            /\ tpc' = "extract"
            /\ game_files' = << >>
            /\ successful' = 0
            /\ failed' = 0
            /\ completed' = 0
            /\ jobs' = << >>
            /\ compressed_files' = << >>
            /\ extracted' = << >>
            /\ runs' = runs + 1
            /\ stopRequested' = FALSE
            /\ dispatchedAtStop' = {}
            \* self.master.after(500, self.update_metrics)
            /\ timers' = timers + 1
    /\ UNCHANGED << fs, source_dir, options, config, after_complete >>

StopConversion ==
    /\ stop_button = "normal"
    /\ is_converting' = FALSE
    /\ stop_button' = "disabled"
    /\ lastEvent' = "other"
    /\ stopRequested' = TRUE
    /\ dispatchedAtStop' = {j \in JobIds : jobs[j].pc # "queued"}
    /\ UNCHANGED << fs, source_dir, options, config, sampler, convert_button,
                    scan_button, totals, tpc, locals, jobs, extracted,
                    after_complete, runs, validated >>

conversion_complete ==
    /\ after_complete
    /\ after_complete' = FALSE
    /\ convert_button' = "normal"
    /\ scan_button' = "normal"
    /\ stop_button' = "disabled"
    /\ lastEvent' = "other"
    /\ metrics_running' = FALSE
    /\ UNCHANGED << fs, source_dir, options, config, timers, is_converting,
                    totals, tpc, locals, jobs, extracted, history >>

\* One tick of the sampler: a tick that finds metrics_running cleared
\* returns, any other tick rewrites the two labels and arms the next one.
update_metrics ==
    /\ timers > 0
    /\ timers' = IF metrics_running THEN timers ELSE timers - 1
    /\ UNCHANGED << fs, source_dir, options, config, metrics_running,
                    is_converting, buttons, totals, tpc, locals, jobs,
                    extracted, after_complete, lastEvent, history >>

\* ----------------------------------------------------- conversion_thread
\* the head of the thread: with the option set, extract_all_archives
\* looks for the archives
ExtractStage ==
    /\ tpc = "extract"
    /\ LET found == IF extract_compressed
                    THEN find_compressed_files(source_dir, fs) ELSE << >>
       IN /\ compressed_files' = found
          /\ tpc' = IF found = << >> THEN "scan" ELSE "extracting"
    /\ UNCHANGED << fs, source_dir, options, config, sampler, is_converting, buttons,
                    totals, game_files, successful, failed, completed, jobs,
                    extracted, after_complete, lastEvent, history >>

\* one iteration of the loop of extract_all_archives: extract_archive on
\* the next archive and, if it succeeded and the option is set, unlink of
\* the archive; an exception that leaves extract_archive ends the thread
ExtractArchive(outcome) ==
    /\ tpc = "extracting"
    /\ LET archive == Head(compressed_files)
           r == extract_archive(archive, outcome, fs)
       IN /\ outcome \in OutcomesFor(archive)
          /\ extracted' = Append(extracted,
                                 [archive |-> archive, success |-> r.success,
                                  folder |-> r.folder, invoked |-> r.invoked,
                                  raised |-> r.raised])
          /\ fs' = IF r.success /\ delete_archives_after_extract
                   THEN r.files \ {archive} ELSE r.files
          /\ compressed_files' = Tail(compressed_files)
          /\ tpc' = IF r.raised THEN "crashed"
                    ELSE IF Tail(compressed_files) = << >> THEN "scan"
                    ELSE "extracting"
    /\ UNCHANGED << source_dir, options, config, sampler, is_converting, buttons,
                    totals, game_files, successful, failed, completed, jobs,
                    after_complete, lastEvent, history >>

\* the scan of the thread, the reset of the totals and the submission of
\* one future per descriptor
ScanAndSubmit ==
    /\ tpc = "scan"
    /\ LET found == find_game_files(source_dir, fs)
       IN /\ game_files' = found
          /\ total_jobs' = Len(found)
          /\ completed_jobs' = 0
          /\ IF Len(found) = 0
             THEN /\ is_converting' = FALSE
                  /\ after_complete' = TRUE
                  /\ tpc' = "idle"
                  /\ UNCHANGED << total_original_size, total_chd_size, jobs >>
             ELSE /\ total_original_size' = 0
                  /\ total_chd_size' = 0
                  /\ jobs' = [i \in 1..Len(found) |-> NewJob(found[i], fs)]
                  /\ tpc' = "collect"
                  /\ UNCHANGED << is_converting, after_complete >>
    /\ successful' = 0
    /\ failed' = 0
    /\ completed' = 0
    /\ validated' = IF tpc' = "idle" THEN "none" ELSE validated
    /\ UNCHANGED << fs, source_dir, options, config, sampler, buttons,
                    compressed_files, extracted, lastEvent, runs,
                    stopRequested, dispatchedAtStop >>

\* one iteration of "for future in as_completed(futures)"
Collect(j) ==
    /\ tpc = "collect"
    /\ jobs[j].pc = "finished"
    /\ ~jobs[j].collected
    /\ IF ~is_converting
       THEN \* executor.shutdown(wait=False, cancel_futures=True); break
            /\ jobs' = [i \in JobIds |->
                          IF i = j THEN [jobs[i] EXCEPT !.collected = TRUE]
                          ELSE IF jobs[i].pc = "queued"
                               THEN [jobs[i] EXCEPT !.pc = "cancelled"]
                               ELSE jobs[i]]
            /\ tpc' = "join"
            /\ UNCHANGED << successful, failed, completed, completed_jobs >>
       ELSE LET t == Tally(jobs[j].result, successful, failed, completed)
                counted == IF t = << successful, failed, completed >>
                           THEN 0 ELSE 1
            IN /\ successful' = t[1]
               /\ failed' = t[2]
               /\ completed' = t[3]
               /\ completed_jobs' =
                      IF jobs[j].result \in {"True", "False"}
                      THEN t[3] ELSE completed_jobs
               /\ jobs' = [jobs EXCEPT ![j].collected = TRUE,
                                       ![j].tallied = @ + counted]
               /\ tpc' = IF \A i \in JobIds \ {j} : jobs[i].collected
                         THEN "join" ELSE "collect"
    /\ UNCHANGED << fs, source_dir, options, config, sampler, is_converting, buttons,
                    total_jobs, total_original_size, total_chd_size,
                    compressed_files, game_files, extracted, after_complete,
                    lastEvent, history >>

\* the end of the "with" block and the summary
JoinAndSummary ==
    /\ tpc = "join"
    /\ PoolDrained(jobs)
    /\ is_converting' = FALSE
    /\ after_complete' = TRUE
    /\ tpc' = "idle"
    /\ validated' = "none"
    /\ UNCHANGED << fs, source_dir, options, config, sampler, buttons, totals,
                    locals, jobs, extracted, lastEvent, runs, stopRequested,
                    dispatchedAtStop >>

\* ---------------------------------------------------------- pool workers
jobvars == << source_dir, options, config, sampler, is_converting, buttons,
              total_jobs, completed_jobs, tpc, locals, extracted,
              after_complete, lastEvent, history >>

\* a free worker takes the oldest queued work item and runs
\* process_single_file up to the call of convert_to_chd
BeginJob(j) ==
    /\ tpc \in {"collect", "join"}
    /\ jobs[j].pc = "queued"
    /\ \A i \in 1..(j - 1) : jobs[i].pc # "queued"
    /\ WorkerFree(RunningJobs)
    /\ jobs' = [jobs EXCEPT
                  ![j].observed = IF is_converting THEN "running" ELSE "stopped",
                  ![j].pc = IF ShouldRun(is_converting)
                            THEN "started" ELSE "finished",
                  ![j].result = IF ShouldRun(is_converting)
                                THEN "pending" ELSE "None"]
    /\ UNCHANGED << fs, total_original_size, total_chd_size, jobvars >>

\* convert_to_chd up to the list that parse_cue_file returns
ConvertBegin(j) ==
    /\ jobs[j].pc = "started"
    /\ LET path == jobs[j].path
       IN IF AlreadyConverted(path, fs)
          THEN jobs' = [jobs EXCEPT ![j].skipped = TRUE,
                                    ![j].success = TRUE,
                                    ![j].pc = "post"]
          ELSE jobs' = [jobs EXCEPT
                          ![j].bin_files = parse_cue_file(path, fs),
                          ![j].pc = "sizing"]
    /\ UNCHANGED << fs, total_original_size, total_chd_size, jobvars >>

\* convert_to_chd, the sizes of the originals and the start of the
\* external converter; stat() of a file that is gone raises out of
\* process_single_file, as it is called outside the try block
SizeOriginals(j) ==
    /\ jobs[j].pc = "sizing"
    /\ LET path == jobs[j].path
       IN IF ~({path} \cup Range(jobs[j].bin_files) \subseteq fs)
          THEN jobs' = [jobs EXCEPT ![j].result = "raised",
                                    ![j].pc = "finished"]
          ELSE jobs' = [jobs EXCEPT
                          ![j].original_size =
                              SumSizes(jobs[j].bin_files) + st_size(path),
                          ![j].invoked = @ + 1,
                          ![j].pc = "converting"]
    /\ UNCHANGED << fs, total_original_size, total_chd_size, jobvars >>

ConverterOutcomes == {"ok", "exit1", "timeout", "no_output"}

\* the external converter returns; on success the first total is loaded
ConvertEnd(j, outcome) ==
    /\ jobs[j].pc = "converting"
    /\ LET path == jobs[j].path
           returncode == IF outcome \in {"ok", "no_output"} THEN 0 ELSE 1
           files == IF outcome = "ok" THEN fs \cup {chd_path(path)} ELSE fs
       IN /\ fs' = files
          /\ IF outcome # "timeout" /\ ConvertSucceeded(returncode, path, files)
             THEN jobs' = [jobs EXCEPT
                             ![j].chd_size = st_size(chd_path(path)),
                             ![j].outcome = outcome,
                             ![j].outputAtReturn =
                                 chd_path(path) \in files,
                             ![j].afterStop = stopRequested,
                             ![j].reg = total_original_size,
                             ![j].pc = "add_orig_store"]
             ELSE jobs' = [jobs EXCEPT ![j].success = FALSE,
                                       ![j].outcome = outcome,
                                       ![j].outputAtReturn =
                                           chd_path(path) \in files,
                                       ![j].afterStop = stopRequested,
                                       ![j].pc = "post"]
    /\ UNCHANGED << total_original_size, total_chd_size, jobvars >>

\* self.total_original_size += original_size, the store
AddOrigStore(j) ==
    /\ jobs[j].pc = "add_orig_store"
    /\ total_original_size' = jobs[j].reg + jobs[j].original_size
    /\ jobs' = [jobs EXCEPT ![j].pc = "add_chd_load"]
    /\ UNCHANGED << fs, total_chd_size, jobvars >>

\* self.total_chd_size += chd_size, the load
AddChdLoad(j) ==
    /\ jobs[j].pc = "add_chd_load"
    /\ jobs' = [jobs EXCEPT ![j].reg = total_chd_size,
                            ![j].pc = "add_chd_store"]
    /\ UNCHANGED << fs, total_original_size, total_chd_size, jobvars >>

\* self.total_chd_size += chd_size, the store; convert_to_chd returns True
AddChdStore(j) ==
    /\ jobs[j].pc = "add_chd_store"
    /\ total_chd_size' = jobs[j].reg + jobs[j].chd_size
    /\ jobs' = [jobs EXCEPT ![j].success = TRUE, ![j].reg = 0,
                            ![j].pc = "post"]
    /\ UNCHANGED << fs, total_original_size, jobvars >>

\* the rest of process_single_file: with the delete option the originals,
\* of which `handled` are deleted before an error if any, then the return;
\* with the backup option the start of move_to_backup_folder
Postprocess(j, handled) ==
    /\ jobs[j].pc = "post"
    /\ LET path == jobs[j].path
           policy == PostPolicy(jobs[j].success, delete_originals,
                                move_to_backup)
           todo == IF policy = "delete" THEN Len(originals(path, fs)) ELSE 0
           files == IF policy = "delete"
                    THEN delete_original_files(path, fs, handled) ELSE fs
       IN /\ handled \in 0..todo
          /\ handled < todo => io_errors
          /\ fs' = files
          /\ IF policy = "move"
             THEN jobs' = [jobs EXCEPT
                             ![j].policy = policy,
                             ![j].queue =
                                 parse_cue_file(path, fs) \o << path >>,
                             ![j].outcome = "none",
                             ![j].outputAtReturn = FALSE,
                             ![j].pc = "move_check"]
             ELSE jobs' = [jobs EXCEPT
                             ![j].policy = policy,
                             ![j].removed = fs \ files,
                             ![j].postFailed = handled < todo,
                             ![j].outcome = "none",
                             ![j].outputAtReturn = FALSE,
                             ![j].result =
                                 IF JobResult(jobs[j].success, handled = todo)
                                 THEN "True" ELSE "False",
                             ![j].pc = "finished"]
    /\ UNCHANGED << total_original_size, total_chd_size, jobvars >>

\* the return of process_single_file after move_to_backup_folder
MoveReturn(job, post_ok) ==
    [job EXCEPT !.queue = << >>, !.dest = << >>,
                !.postFailed = ~post_ok,
                !.result = IF JobResult(job.success, post_ok)
                           THEN "True" ELSE "False",
                !.pc = "finished"]

\* move_to_backup_folder, "if file.exists()" and the "while dest.exists()"
\* loop for the next file: a file that is gone is passed over
MoveCheck(j) ==
    /\ jobs[j].pc = "move_check"
    /\ LET file == Head(jobs[j].queue)
           rest == Tail(jobs[j].queue)
       IN jobs' = [jobs EXCEPT ![j] =
                     IF file \in fs
                     THEN [@ EXCEPT !.dest = << FreeSuffix(file, 0, fs) >>,
                                    !.pc = "move_do"]
                     ELSE IF rest = << >> THEN MoveReturn(@, TRUE)
                     ELSE [@ EXCEPT !.queue = rest]]
    /\ UNCHANGED << fs, total_original_size, total_chd_size, jobvars >>

\* move_to_backup_folder, shutil.move of the file to the destination found;
\* a refused move, or a file gone since the check, raises into the except
\* branch, which ends the function
MoveFile(j, ok) ==
    /\ jobs[j].pc = "move_do"
    /\ ~ok => io_errors
    /\ LET file == Head(jobs[j].queue)
           rest == Tail(jobs[j].queue)
           dest == jobs[j].dest[1]
       IN IF ~ok \/ file \notin fs
          THEN /\ jobs' = [jobs EXCEPT ![j] = MoveReturn(@, FALSE)]
               /\ UNCHANGED fs
          ELSE /\ fs' = shutil_move(file, dest, fs)
               /\ jobs' = [jobs EXCEPT ![j] =
                     LET job == [@ EXCEPT !.removed = @ \cup {file},
                                         !.overwrote = @ \/ dest \in fs,
                                         !.dest = << >>]
                     IN IF rest = << >> THEN MoveReturn(job, TRUE)
                        ELSE [job EXCEPT !.queue = rest,
                                         !.pc = "move_check"]]
    /\ UNCHANGED << total_original_size, total_chd_size, jobvars >>

\* ------------------------------------------------------- the move dialog
\* An output file of the dialog's folders is [dir, name, ext]: dir is
\* "root" (the source folder), "sub" (a folder below it) or "dest" (the
\* destination folder); name is the stem as the list of its words and of
\* its tags in parentheses or brackets.
DF(dir, name) == [dir |-> dir, name |-> name, ext |-> "chd"]

\* the output files the source folder may hold, as sorted() orders their
\* paths, and those the destination may hold beforehand
ChdOrder == << DF("root", << "g", "(USA)" >>), DF("root", << "g" >>),
               DF("sub", << "g" >>) >>
DestBefore == {DF("dest", << "g" >>), DF("dest", << "g", "(1)" >>)}

\* A name is the list of its parts, which single spaces separate in the
\* text: a word, a whole tag "(...)" or "[...]", or a parenthesis or
\* bracket that stands alone; "" is the empty text before a leading space.
DiscTags == {"(Disc 1)", "(Disc 2)"}
ParenTags == DiscTags \cup {"(USA)", "(Europe)", "(1)", "(2)", "(3)", "(4)",
                            "(5)", "(6)"}
BracketTags == {"[!]"}
IsDiscTag(tok) == tok \in DiscTags

\* re.sub(r'\s*<opener>[^<closer>]+<closer>', '', name): from left to
\* right, a whole tag is removed, and so is everything from an opener that
\* stands alone to the first closer after it, the end of a whole tag
\* included; an opener with no closer after it stays
RECURSIVE RemoveTags(_, _, _, _)
RemoveTags(name, opener, closer, whole) ==
    IF name = << >> THEN << >>
    ELSE LET tok == Head(name)
             rest == Tail(name)
             ends == {j \in 1..Len(rest) : rest[j] \in whole \cup {closer}}
             first == CHOOSE j \in ends : \A k \in ends : j <= k
         IN IF tok \in whole
            THEN RemoveTags(rest, opener, closer, whole)
            ELSE IF tok = opener /\ ends # {}
            THEN RemoveTags(SubSeq(rest, first + 1, Len(rest)), opener,
                            closer, whole)
            ELSE << tok >> \o RemoveTags(rest, opener, closer, whole)

\* clean_game_name: the first disc tag is noted, the tags in parentheses
\* and then those in brackets are removed, the white space is collapsed
\* and stripped, and f"{name} {disc_tag}" puts the disc tag back
clean_game_name(filename) ==
    LET discs == SelectSeq(filename, IsDiscTag)
        no_parens == RemoveTags(filename, "(", ")", ParenTags)
        no_brackets == RemoveTags(no_parens, "[", "]", BracketTags)
        name == SelectSeq(no_brackets, LAMBDA tok : tok # "")
    IN IF discs = << >> THEN name
       ELSE (IF name = << >> THEN << "" >> ELSE name) \o << Head(discs) >>

\* f"{base_name} ({counter}).chd"
CounterTag(counter) ==
    << "(1)", "(2)", "(3)", "(4)", "(5)", "(6)" >>[counter]

\* find_chd_files
find_chd_files(files, recursive_scan) ==
    SelectSeq(ChdOrder,
              LAMBDA p : p \in files /\ (recursive_scan \/ p.dir = "root"))

\* a destination that is the new name whatever the folder holds
dest_file_Unchecked(new_name, counter, files) == DF("dest", new_name)

\* the "while dest_file.exists()" loop of execute_move: the new name, else
\* the first free "<new name> (<counter>)"
RECURSIVE dest_file(_, _, _)
dest_file(new_name, counter, files) ==
    LET dest == DF("dest", IF counter = 0 THEN new_name
                           ELSE Append(new_name, CounterTag(counter)))
    IN IF dest \in files /\ counter <= MaxSuffix
       THEN dest_file(new_name, counter + 1, files) ELSE dest

\* the loop of execute_move over found_files: [files, moved] after it; a
\* file of the list that is gone raises and is counted as an error
RECURSIVE MoveLoop(_, _, _, _, _)
MoveLoop(list, files, done, remove_locale, copy_instead) ==
    IF list = << >> THEN [files |-> files, moved |-> done]
    ELSE LET chd == Head(list)
             new_name == IF remove_locale THEN clean_game_name(chd.name)
                         ELSE chd.name
             dest == dest_file(new_name, 0, files)
         IN IF chd \notin files
            THEN MoveLoop(Tail(list), files, done, remove_locale,
                          copy_instead)
            ELSE MoveLoop(Tail(list),
                          IF copy_instead THEN files \cup {dest}
                          ELSE shutil_move(chd, dest, files),
                          Append(done, [src |-> chd, new_name |-> new_name,
                                        dst |-> dest]),
                          remove_locale, copy_instead)

\* the duplicate counter of a destination name, 0 if it has none
CounterOf(name) ==
    IF name # << >> /\ \E k \in 1..6 : name[Len(name)] = CounterTag(k)
    THEN CHOOSE k \in 1..6 : name[Len(name)] = CounterTag(k)
    ELSE 0

scan_for_chd(recursive_scan) ==
    /\ found_files' = find_chd_files(fs, recursive_scan)
    /\ UNCHANGED << fs, source_dir, options, process_ps1_cues,
                    process_ps2_isos, extract_compressed, recursive,
                    delete_archives_after_extract, seven_zip_path, io_errors,
                    is_converting, buttons, totals, tpc, locals, jobs,
                    extracted, after_complete, lastEvent, history, sampler, run_limit, moved,
                    cleaned >>

execute_move(remove_locale, copy_instead, confirm) ==
    /\ LET after == MoveLoop(found_files, fs, << >>, remove_locale,
                             copy_instead)
       IN IF found_files = << >> \/ ~confirm
          THEN UNCHANGED << fs, moved >>
          ELSE /\ \A i \in 1..Len(after.moved) :
                     CounterOf(after.moved[i].dst.name) <= MaxSuffix
               /\ fs' = after.files
               /\ moved' = after.moved
    /\ UNCHANGED << source_dir, options, process_ps1_cues, process_ps2_isos,
                    extract_compressed, recursive,
                    delete_archives_after_extract, seven_zip_path, io_errors, is_converting,
                    buttons,
                    totals, tpc, locals, jobs, extracted, after_complete,
                    lastEvent, history, sampler, run_limit, found_files, cleaned >>

\* the dialog opened on a window that has run nothing: the folders hold
\* output files, some of which clean to the same name
DialogInit ==
    /\ fs \in {S \cup T : S \in SUBSET Range(ChdOrder),
                          T \in SUBSET DestBefore}
    /\ source_dir = "games"
    /\ delete_originals = FALSE
    /\ move_to_backup = FALSE
    /\ process_ps1_cues = TRUE
    /\ process_ps2_isos = TRUE
    /\ extract_compressed = FALSE
    /\ recursive = FALSE
    /\ delete_archives_after_extract = FALSE
    /\ seven_zip_path = FALSE
    /\ io_errors = FALSE
    /\ run_limit = MaxRuns
    /\ Constructed

DialogNext ==
    \/ \E recursive_scan \in BOOLEAN : scan_for_chd(recursive_scan)
    \/ \E remove_locale, copy_instead, confirm \in BOOLEAN :
          execute_move(remove_locale, copy_instead, confirm)

DialogSpec == DialogInit /\ [][DialogNext]_vars

\* ------------------------------------------------------ cleaning of names
NameTokens == {"g", "(", ")", "[", "]", "(USA)", "[!]", "(Disc 1)",
               "(Disc 2)"}
Names == UNION {[1..n -> NameTokens] : n \in 1..MaxTokens}

\* a call of clean_game_name, on a name or on what the call before it
\* returned
clean_name(filename) ==
    /\ Len(cleaned) < MaxApplications
    /\ cleaned # << >> => filename = cleaned[Len(cleaned)].name
    /\ cleaned' = Append(cleaned, [filename |-> filename,
                                   name |-> clean_game_name(filename)])
    /\ UNCHANGED << fs, source_dir, options, process_ps1_cues,
                    process_ps2_isos, extract_compressed, recursive,
                    delete_archives_after_extract, seven_zip_path, io_errors,
                    is_converting, buttons, totals, tpc, locals, jobs,
                    extracted, after_complete, lastEvent, history, sampler, run_limit,
                    found_files, moved >>

NameInit ==
    /\ fs = {}
    /\ source_dir = "games"
    /\ delete_originals = FALSE
    /\ move_to_backup = FALSE
    /\ process_ps1_cues = TRUE
    /\ process_ps2_isos = TRUE
    /\ extract_compressed = FALSE
    /\ recursive = FALSE
    /\ delete_archives_after_extract = FALSE
    /\ seven_zip_path = FALSE
    /\ io_errors = FALSE
    /\ run_limit = MaxRuns
    /\ Constructed

NameNext ==
    \E filename \in Names \cup {cleaned[i].name : i \in 1..Len(cleaned)} :
       clean_name(filename)

NameSpec == NameInit /\ [][NameNext]_vars

\* ------------------------------------------------------------------ Next
Next ==
    \/ \E d \in Dirs : BrowseDirectory(d)
    \/ ToggleDeleteOriginals
    \/ ToggleMoveToBackup
    \/ ScanDirectory
    \/ \E confirm \in BOOLEAN : StartConversion(confirm)
    \/ StopConversion
    \/ conversion_complete
    \/ update_metrics
    \/ ExtractStage
    \/ \E outcome \in ArchiveOutcomes : ExtractArchive(outcome)
    \/ ScanAndSubmit
    \/ \E j \in JobIds : Collect(j)
    \/ JoinAndSummary
    \/ \E j \in JobIds : BeginJob(j)
    \/ \E j \in JobIds : ConvertBegin(j)
    \/ \E j \in JobIds : SizeOriginals(j)
    \/ \E j \in JobIds, outcome \in ConverterOutcomes : ConvertEnd(j, outcome)
    \/ \E j \in JobIds : AddOrigStore(j)
    \/ \E j \in JobIds : AddChdLoad(j)
    \/ \E j \in JobIds : AddChdStore(j)
    \/ \E j \in JobIds :
          \E handled \in 0..Len(originals(jobs[j].path, fs)) :
             Postprocess(j, handled)
    \/ \E j \in JobIds : MoveCheck(j)
    \/ \E j \in JobIds, ok \in BOOLEAN : MoveFile(j, ok)

Spec == Init /\ [][Next]_vars

PoolSpec == PoolInit /\ [][Next]_vars

FaultSpec == FaultInit /\ [][Next]_vars

TrackSpec == TrackInit /\ [][Next]_vars

BackupSpec == BackupInit /\ [][Next]_vars

ScanSpec == ScanInit /\ [][Next]_vars

ExtractSpec == ExtractInit /\ [][Next]_vars

RestartSpec == RestartInit /\ [][Next]_vars

\* the steps of conversion_thread, of the pool's workers (an external
\* converter call returns or times out) and of the Tk callback the thread
\* schedules with master.after
ThreadStep == ExtractStage \/ ScanAndSubmit \/ JoinAndSummary
                 \/ \E outcome \in ArchiveOutcomes : ExtractArchive(outcome)
                 \/ \E j \in JobIds : Collect(j)
WorkerStep ==
    \E j \in JobIds :
       \/ BeginJob(j)
       \/ ConvertBegin(j)
       \/ SizeOriginals(j)
       \/ \E outcome \in ConverterOutcomes : ConvertEnd(j, outcome)
       \/ AddOrigStore(j) \/ AddChdLoad(j) \/ AddChdStore(j)
       \/ \E handled \in 0..Len(originals(jobs[j].path, fs)) :
             Postprocess(j, handled)
       \/ MoveCheck(j)
       \/ \E ok \in BOOLEAN : MoveFile(j, ok)

\* the threads are scheduled by the operating system and the Tk main loop
\* runs its pending callbacks; the user is under no obligation
LiveInit ==
    /\ fs = {P("a", "iso"), P("b", "cue")} \cup Sidecars \cup Archives
    /\ source_dir \in Dirs
    /\ delete_originals \in BOOLEAN
    /\ move_to_backup \in BOOLEAN
    /\ process_ps1_cues = TRUE
    /\ process_ps2_isos = TRUE
    /\ extract_compressed = TRUE
    /\ recursive = FALSE
    /\ delete_archives_after_extract = FALSE
    /\ seven_zip_path = FALSE
    /\ io_errors = FALSE
    /\ run_limit = MaxRuns
    /\ Constructed

LiveSpec ==
    /\ LiveInit
    /\ [][Next]_vars
    /\ WF_vars(ThreadStep)
    /\ WF_vars(WorkerStep)
    /\ WF_vars(conversion_complete)

TypeOK ==
    /\ is_converting \in BOOLEAN
    /\ tpc \in {"idle", "extract", "extracting", "scan", "collect", "join"}
    /\ Cardinality(RunningJobs) <= cpu_cores

\* ---------------------------------------------------------------- claims
\* the thread of a started run has returned (after its summary, or after
\* "No game files to convert!")
RunEnded == runs > 0 /\ tpc = "idle"

\* the job ran the external converter and convert_to_chd returned True
Converted(j) == jobs[j].invoked > 0 /\ jobs[j].success

\* the sum over the jobs S of their original sizes or of their output sizes
RECURSIVE SumOver(_, _)
SumOver(S, field) ==
    IF S = {} THEN 0
    ELSE LET x == CHOOSE y \in S : TRUE
         IN (IF field = "original" THEN jobs[x].original_size
             ELSE jobs[x].chd_size) + SumOver(S \ {x}, field)

\* C1: a job that found its output file already there is never
\* post-processed: it moves or deletes none of its originals.
C1_SkippedNeverPostprocessed ==
    \A j \in JobIds : jobs[j].skipped => jobs[j].removed = {}

\* C2: a run (not stopped) over K descriptors whose output file exists
\* ends with K successes, no failure, no call of the external converter,
\* and every output file still in place.
C2_AlreadyConvertedRun ==
    (RunEnded /\ ~stopRequested /\ \A j \in JobIds : jobs[j].hadOutput)
    => /\ successful = Len(jobs)
       /\ failed = 0
       /\ \A j \in JobIds : /\ jobs[j].invoked = 0
                            /\ jobs[j].result = "True"
                            /\ chd_path(jobs[j].path) \in fs

C2_Witness ==
    /\ RunEnded /\ ~stopRequested
    /\ Len(jobs) = 2
    /\ \A j \in JobIds : jobs[j].hadOutput /\ jobs[j].skipped
    /\ successful = 2
    /\ chd_path(jobs[1].path) # chd_path(jobs[2].path)

\* C3: after a stop request the tallies of the run hold an outcome for
\* exactly the jobs that had been dispatched when the stop was requested.
C3_StopTalliesDispatched ==
    (RunEnded /\ stopRequested)
    => {j \in JobIds : jobs[j].tallied > 0} = dispatchedAtStop

\* C4 as stated: at the end of every run, stopped or not, every submitted
\* job has exactly one recorded outcome and the counts add up to the total.
C4_EveryJobCounted ==
    RunEnded => /\ \A j \in JobIds : jobs[j].tallied = 1
                /\ successful + failed = Len(game_files)

\* C4 amended: at the end of every run every submitted job has at most one
\* recorded outcome and the counts add up to the number of jobs counted,
\* at most the total; if no stop was requested every job has exactly one
\* and the counts add up to the total.
C4_CountedAtMostOnce ==
    RunEnded =>
       /\ \A j \in JobIds : jobs[j].tallied <= 1
       /\ successful + failed =
              Cardinality({j \in JobIds : jobs[j].tallied = 1})
       /\ successful + failed <= Len(game_files)
       /\ ~stopRequested => /\ \A j \in JobIds : jobs[j].tallied = 1
                            /\ successful + failed = Len(game_files)

C4_Witness ==
    /\ RunEnded /\ ~stopRequested
    /\ Len(game_files) = 2
    /\ successful = 1 /\ failed = 1

\* C5: a job whose external conversion returned after the stop request is
\* not post-processed.
C5_LateConversionNotPostprocessed ==
    \A j \in JobIds :
       (jobs[j].afterStop /\ Converted(j)) => jobs[j].removed = {}

\* C6: a job that reads the cancellation flag as set at its head never
\* calls the external converter and never moves or deletes a file, and a
\* job becomes cancelled only from the queue, never from a later state.
C6_Step ==
    /\ \A j \in 1..Len(jobs') :
          jobs'[j].observed = "stopped" =>
             /\ jobs'[j].invoked = 0
             /\ jobs'[j].removed = {}
             /\ jobs'[j].result = "None"
             /\ jobs'[j].pc = "finished"
    /\ \A j \in JobIds \cap (1..Len(jobs')) :
          (jobs'[j].pc = "cancelled" \/ jobs'[j].result = "None")
             => \/ jobs[j].pc = "queued"
                \/ jobs[j].pc = jobs'[j].pc /\ jobs[j].result = jobs'[j].result

C6_CancelledOnlyFromPending == [][C6_Step]_vars

C6_Witness ==
    \E i, j \in JobIds :
       /\ jobs[i].invoked > 0
       /\ jobs[j].observed = "stopped" /\ jobs[j].result = "None"
       /\ jobs[j].path \in fs

\* C7: a job that entered Converting ends only as Succeeded or Failed, also
\* after a stop request, and the thread ends its run only when no job is
\* running any more.
C7_DrainedBeforeCompletion ==
    /\ \A j \in JobIds :
          (jobs[j].invoked > 0 /\ jobs[j].pc \notin Running)
             => jobs[j].pc = "finished" /\ jobs[j].result \in {"True", "False"}
    /\ (tpc = "idle" \/ after_complete \/ convert_button = "normal")
          => \A j \in JobIds : jobs[j].pc \notin Running

C7_Witness ==
    /\ RunEnded /\ stopRequested
    /\ \E j \in JobIds : /\ jobs[j].afterStop
                         /\ jobs[j].invoked > 0
                         /\ jobs[j].result \in {"True", "False"}
                         /\ j \in dispatchedAtStop

\* C8: at the end of a run the cumulative byte totals equal the sums over
\* the genuinely converted jobs of their sizes.
C8_TotalsExact ==
    (RunEnded /\ jobs # << >>)
    => LET conv == {j \in JobIds : Converted(j)}
       IN /\ total_original_size = SumOver(conv, "original")
          /\ total_chd_size = SumOver(conv, "output")

\* the files a job reads, writes, moves or deletes
JobFiles(path) ==
    LET own == {path} \cup Range(CueContent(path))
    IN own \cup {chd_path(path)} \cup {InBackup(f) : f \in own}

\* C9: two distinct jobs of a run work on disjoint sets of files.
C9_DisjointFiles ==
    \A i, j \in JobIds :
       i # j => JobFiles(jobs[i].path) \cap JobFiles(jobs[j].path) = {}

\* C10: a start request made with both options enabled, or with a root
\* that is not a directory, changes nothing: no thread, no job, no
\* extraction, and the flag, the totals and the buttons as they were.
C10_Step ==
    (/\ lastEvent # "start_conversion"
     /\ lastEvent' = "start_conversion"
     /\ (delete_originals /\ move_to_backup) \/ ~isdir(source_dir))
    => UNCHANGED << fs, is_converting, buttons, totals, tpc, locals, jobs,
                    extracted, after_complete, runs >>

C10_RefusedStartChangesNothing == [][C10_Step]_vars

C10_Witness ==
    /\ lastEvent = "start_conversion"
    /\ delete_originals /\ move_to_backup /\ isdir(source_dir)
    /\ convert_button = "normal"
    /\ runs = 0 /\ tpc = "idle" /\ ~is_converting

C12_Step ==
    /\ 0 <= completed_jobs' /\ completed_jobs' <= total_jobs'
    /\ completed' <= Len(game_files')
    /\ runs' = runs =>
          /\ completed_jobs' >= completed_jobs
          /\ completed_jobs' * total_jobs >= completed_jobs * total_jobs'

C12_ProgressMonotonic ==
    /\ completed_jobs <= total_jobs
    /\ [][C12_Step]_vars

\* the second job was collected before the first: one of two is counted
C12_Witness ==
    /\ tpc = "collect"
    /\ total_jobs = 2 /\ completed_jobs = 1
    /\ jobs[2].collected /\ ~jobs[1].collected

\* the converter call of the job timed out, exited non-zero, or exited
\* zero with no output file there
ConverterFailed(j) ==
    /\ jobs[j].pc = "post"
    /\ \/ jobs[j].outcome \in {"timeout", "exit1"}
       \/ jobs[j].outcome = "no_output" /\ ~jobs[j].outputAtReturn

\* C13: a job whose converter call timed out, exited non-zero, or exited
\* zero without the output file existing is a failed job; a failed job
\* ends Failed with its originals untouched, and the run counts one
\* failure for each such job and none for any other.
C13_ConverterFailureIsFailed ==
    /\ \A j \in JobIds :
          ConverterFailed(j) => ~jobs[j].success /\ jobs[j].invoked = 1
    /\ \A j \in JobIds :
          (jobs[j].pc = "finished" /\ jobs[j].invoked = 1
              /\ ~jobs[j].success) =>
             /\ jobs[j].result = "False"
             /\ jobs[j].removed = {}
             /\ jobs[j].tallied <= 1
    /\ (RunEnded /\ ~stopRequested) =>
          failed = Cardinality({j \in JobIds : /\ jobs[j].invoked = 1
                                               /\ ~jobs[j].success})

\* one job's converter exited zero without writing the output file; the
\* job of the other descriptor was converted and has been counted
C13_Witness ==
    /\ Len(jobs) = 2
    /\ \E i, j \in JobIds :
          /\ ConverterFailed(i)
          /\ jobs[i].outcome = "no_output"
          /\ jobs[j].result = "True" /\ jobs[j].invoked = 1
          /\ jobs[j].tallied = 1
    /\ failed = 0 /\ successful = 1

\* C14: a genuinely converted job whose move or delete of the originals
\* ended on an error still ends Succeeded, is counted as successful by the
\* summary, and its output file stays in place.
C14_PostFailureKeepsSuccess ==
    /\ \A j \in JobIds :
          (Converted(j) /\ jobs[j].postFailed) =>
             /\ jobs[j].pc = "finished" /\ jobs[j].result = "True"
             /\ chd_path(jobs[j].path) \in fs
    /\ (RunEnded /\ ~stopRequested) =>
          successful = Cardinality({j \in JobIds : jobs[j].success})

\* the move of a converted job stopped after the sidecar: the descriptor
\* is still there, and the job is counted as successful
C14_Witness ==
    /\ RunEnded /\ ~stopRequested
    /\ \E j \in JobIds :
          /\ Converted(j) /\ jobs[j].postFailed
          /\ jobs[j].policy = "move"
          /\ jobs[j].removed # {} /\ jobs[j].path \in fs
          /\ jobs[j].tallied = 1
    /\ successful >= 1

\* C15: in one run the external converter is called at most once per
\* descriptor: the submitted jobs are the scanned descriptors, each once,
\* and a job that ended Failed has run once and is not run again.
C15_ConvertedAtMostOnce ==
    /\ Len(jobs) \in {0, Len(game_files)}
    /\ \A j \in JobIds :
          /\ jobs[j].path = game_files[j]
          /\ jobs[j].invoked <= 1
          /\ jobs[j].result = "False" =>
                jobs[j].invoked = 1 /\ jobs[j].pc = "finished"
    /\ \A i, j \in JobIds : i # j => jobs[i].path # jobs[j].path

\* both jobs of a run failed, each after one call of the converter
C15_Witness ==
    /\ RunEnded /\ ~stopRequested
    /\ Len(jobs) = 2
    /\ \A j \in JobIds : jobs[j].result = "False" /\ jobs[j].invoked = 1
    /\ failed = 2 /\ successful = 0

\* C16: at every moment at most cpu_cores jobs are being executed, a job
\* is taken only by a free worker and in submission order, and a pool of
\* more than one worker does not serialize the jobs (C16_Witness).
C16_PoolBounded ==
    /\ Cardinality(RunningJobs) <= cpu_cores
    /\ \A i, j \in JobIds :
          (i < j /\ jobs[i].pc = "queued") =>
             jobs[j].pc \in {"queued", "cancelled"}

\* two jobs are in the external converter at the same time while a third
\* waits for a worker
C16_Witness ==
    /\ cpu_cores > 1
    /\ Cardinality({j \in JobIds : jobs[j].pc = "converting"}) = 2
    /\ \E j \in JobIds : jobs[j].pc = "queued"

\* what a job of the current run adds to the two totals of the summary:
\* its sizes if its converter call succeeded, nothing if it was skipped or
\* failed
RECURSIVE Contribution(_, _)
Contribution(n, field) ==
    IF n = 0 THEN 0
    ELSE (IF jobs[n].skipped \/ ~jobs[n].success \/ jobs[n].invoked = 0
          THEN 0
          ELSE IF field = "original" THEN jobs[n].original_size
               ELSE jobs[n].chd_size)
         + Contribution(n - 1, field)

\* C17: the byte totals the summary reports are the sums of what the jobs
\* of this run with a genuinely successful converter call contribute;
\* skipped and failed jobs contribute nothing, and nothing is left from
\* before the run.
C17_TotalsOfGenuineJobs ==
    (RunEnded /\ jobs # << >>)
    => /\ total_original_size = Contribution(Len(jobs), "original")
       /\ total_chd_size = Contribution(Len(jobs), "output")

\* position of an element in a sequence without repetition
Pos(seq, x) == CHOOSE i \in 1..Len(seq) : seq[i] = x

C19_BackupNeverOverwritten ==
    \A j \in JobIds : ~jobs[j].overwrote

\* the destination names taken when execute_move places its i-th file
TakenBefore(i) ==
    {p \in fs : p.dir = "dest"} \cup {moved'[k].dst : k \in 1..(i - 1)}

\* C20: when execute_move has moved or copied output files, no file that
\* was in the destination is gone or replaced; of the files that resolve
\* to the same name the first keeps it if it is free, and each later one
\* gets the name with the first counter (1), (2), ... that is free.
C20_Step ==
    moved' # moved =>
       /\ \A p \in fs : p.dir = "dest" => p \in fs'
       /\ \A i \in 1..Len(moved') :
             LET m == moved'[i]
                 k == CounterOf(m.dst.name)
                 named(c) == DF("dest", IF c = 0 THEN m.new_name
                                        ELSE Append(m.new_name, CounterTag(c)))
             IN /\ m.dst \in fs'
                /\ m.dst \notin TakenBefore(i)
                /\ m.dst = named(k)
                /\ \A c \in 0..(k - 1) : named(c) \in TakenBefore(i)

C20_NextFreeSuffix == [][C20_Step]_vars

\* two files that both resolve to the name g were moved into an empty
\* destination: g.chd and g (1).chd
C20_Witness ==
    /\ Len(moved) >= 2
    /\ moved[1].new_name = << "g" >> /\ moved[2].new_name = << "g" >>
    /\ moved[1].dst = DF("dest", << "g" >>)
    /\ moved[2].dst = DF("dest", << "g", "(1)" >>)
    /\ moved[1].src \notin fs /\ moved[2].src \notin fs

\* C21: cleaning a name that clean_game_name returned gives the same name
\* again: clean(clean(name)) = clean(name) for every name.
C21_CleanIdempotent ==
    \A i \in 2..Len(cleaned) :
       cleaned[i].filename = cleaned[i - 1].name
          => cleaned[i].name = cleaned[i].filename

\* the descriptors a scan of the tree has to return
ToScan ==
    {p \in fs :
        /\ \/ process_ps1_cues /\ p.ext = "cue"
           \/ process_ps2_isos /\ p.ext = "iso"
        /\ recursive \/ p.dir = << >>}

\* C22: the scan of the thread returns the files of the enabled kinds in
\* the tree (of the directory itself when subfolders are not scanned),
\* each once and sorted by path; with no kind enabled it returns the empty
\* list and the run ends without a job; job i of the run is the i-th
\* descriptor of the list.
C22_Step ==
    (tpc = "scan" /\ tpc' # "scan") =>
       /\ isdir(source_dir) =>
             /\ Range(game_files') = ToScan
             /\ Len(game_files') = Cardinality(ToScan)
       /\ \A i, k \in 1..Len(game_files') :
             i < k => PathLess(game_files'[i], game_files'[k])
       /\ (~process_ps1_cues /\ ~process_ps2_isos) =>
             game_files' = << >> /\ tpc' = "idle" /\ after_complete'
       /\ game_files' # << >> =>
             /\ Len(jobs') = Len(game_files')
             /\ \A i \in 1..Len(jobs') :
                   jobs'[i].path = game_files'[i] /\ jobs'[i].pc = "queued"

C22_ScanSortedEnabledKinds == [][C22_Step]_vars

\* a recursive scan with both kinds enabled has submitted the raw image,
\* the track list of the directory and the track list of the subfolder,
\* in this order
C22_Witness ==
    /\ tpc = "collect" /\ recursive
    /\ game_files = << P("a", "iso"), P("b", "cue"), Sub("a", "cue") >>
    /\ \A i \in 1..3 : jobs[i].path = game_files[i]

\* C23: no error of an extraction leaves extract_archive: a failed
\* extraction is returned as (False, no folder), an archive for the
\* external archiver is not given to it when its path is not set, and
\* after a failed extraction the thread goes on to the next archive or to
\* the scan of the run.
C23_Step ==
    (tpc = "extracting" /\ extracted' # extracted) =>
       /\ compressed_files' = Tail(compressed_files)
       /\ tpc' = IF Len(compressed_files) > 1 THEN "extracting" ELSE "scan"

C23_ExtractionNeverRaises ==
    /\ tpc # "crashed"
    /\ \A i \in 1..Len(extracted) :
          LET call == extracted[i]
          IN /\ ~call.raised
             /\ call.success <=> call.folder # << >>
             /\ (suffix(call.archive) \in {"7z", "rar"} /\ ~seven_zip_path)
                   => ~call.invoked /\ ~call.success
    /\ [][C23_Step]_vars

\* the archive for the external archiver failed without the archiver, a
\* corrupt archive failed too, and the run has submitted its job
C23_Witness ==
    /\ tpc = "collect" /\ jobs # << >>
    /\ ~seven_zip_path
    /\ \E i, k \in 1..Len(extracted) :
          /\ extracted[i].archive = P("d", "7z") /\ ~extracted[i].success
          /\ extracted[k].archive = P("c", "zip") /\ ~extracted[k].success
          /\ i > k

\* C29: in a run every archive is given to extract_archive at most once,
\* also an archive named .tar.gz, and no job is submitted before the
\* extraction stage has ended.
C29_ExtractedOncePerRun ==
    /\ \A i, k \in 1..Len(extracted) :
          i < k => extracted[i].archive # extracted[k].archive
    /\ tpc \in {"extract", "extracting"} => jobs = << >>

\* C24: a job that ended Failed, or whose pipeline raised, has deleted or
\* moved nothing: it took neither branch of the post-processing, and its
\* descriptor and the sidecars it resolved are still in place.
C24_FailedNeverPostprocessed ==
    \A j \in JobIds :
       (jobs[j].pc = "finished" /\ jobs[j].result \in {"False", "raised"}) =>
          /\ jobs[j].removed = {}
          /\ jobs[j].policy \in {"none", "unset"}
          /\ jobs[j].result = "False" =>
                {jobs[j].path} \cup Range(jobs[j].bin_files) \subseteq fs

\* with the delete option set one job failed in the converter and kept
\* its files, while the other job of the run deleted its originals
C24_Witness ==
    /\ delete_originals
    /\ \E i, j \in JobIds :
          /\ jobs[i].pc = "finished" /\ jobs[i].result = "False"
          /\ jobs[i].invoked = 1 /\ jobs[i].bin_files # << >>
          /\ jobs[j].result = "True" /\ jobs[j].policy = "delete"
          /\ jobs[j].removed # {}

\* the stop handler ran: the stop button went from enabled to disabled and
\* this was not conversion_complete
StopStep ==
    /\ stop_button = "normal"
    /\ stop_button' = "disabled"
    /\ UNCHANGED after_complete

\* C25: in a run the cancellation flag is set at most once, and once set
\* it is not cleared before the thread of the run has returned; a start
\* is accepted only when no thread and no job of an earlier run is alive.
C25_Step ==
    /\ (StopStep /\ tpc # "idle") => ~stopRequested
    /\ (~is_converting /\ is_converting') => tpc = "idle"
    /\ runs' = runs + 1 => tpc = "idle" /\ RunningJobs = {}

C25_CancelOncePerRun == [][C25_Step]_vars

\* the second run of a behaviour, stopped while its job is converting
C25_Witness ==
    /\ runs = 2
    /\ stopRequested /\ ~is_converting
    /\ tpc = "collect"
    /\ \E j \in JobIds : jobs[j].pc = "converting"

\* C26: at most one call of update_metrics is pending at any time.
C26_OneSamplerLoop == timers <= 1

\* C28: at the end of a run that was not stopped the completed-job count
\* equals the total job count and the sum of the successes and the
\* failures, also when a job raised.
C28_CountsAgree ==
    (RunEnded /\ ~stopRequested)
    => /\ completed_jobs = total_jobs
       /\ completed_jobs = successful + failed

\* C27: no two jobs of a run have the same output path, and no job finds
\* its output in place because another job of the run wrote it.
C27_DistinctOutputs ==
    /\ \A i, j \in JobIds :
          i # j => chd_path(jobs[i].path) # chd_path(jobs[j].path)
    /\ \A j \in JobIds : jobs[j].skipped => jobs[j].hadOutput

\* C30: the policy a job of a run applies to its originals is the one
\* start_conversion validated for the run, whatever is toggled meanwhile.
C30_PolicyAsValidated ==
    tpc # "idle"
    => \A j \in JobIds :
          jobs[j].policy \in {"delete", "move"} => jobs[j].policy = validated

====
